---- MODULE Spec2Model ----
(***************************************************************************)
(* Model of enhanced_visualizations.py: the height normaliser              *)
(* height_to_inches, the directory helper ensure_viz_directory and the     *)
(* six-chart batch create_player_visualizations.                           *)
(***************************************************************************)
EXTENDS Integers, Sequences, FiniteSets, TLC

VARIABLES
    h,                \* argument of the running height_to_inches call
    ret,              \* what that call returned
    npc,              \* position of the caller of height_to_inches
    csv,              \* rows of cleaned_csv/ACTIVE_PLAYERS_CLEANED.csv
    columns,          \* the column names that file has
    dirExists,        \* does the directory 'visualizations' exist
    files,            \* image files saved under 'visualizations'
    pc,               \* position inside create_player_visualizations
    df_players,       \* the in-memory table
    position_counts,  \* chart 3
    team_counts,      \* chart 4
    height_by_pos,    \* chart 5
    weight_by_pos,    \* chart 6
    error             \* the exception that ended the run, "" when none

vars == <<h, ret, npc, csv, columns, dirExists, files, pc, df_players,
          position_counts, team_counts, height_by_pos, weight_by_pos, error>>

normVars == <<h, ret, npc>>
runVars == <<csv, columns, dirExists, files, pc, df_players,
             position_counts, team_counts, height_by_pos, weight_by_pos, error>>

(***************************************************************************)
(* Bounds of the model.                                                    *)
(***************************************************************************)
MaxLen == 4       \* longest text drawn from Alphabet
MaxFeet == 12     \* largest F of the well-formed "F-I" texts
MaxRows == 2      \* most rows of the input table

(***************************************************************************)
(* Python values.  A number is num/den (den = 1 for an int or a bool),     *)
(* a text is its sequence of characters.                                   *)
(***************************************************************************)
Val(k, ty, n, d, s) == [k |-> k, ty |-> ty, num |-> n, den |-> d, s |-> s]
None == Val("None", "NoneType", 0, 1, <<>>)
NaN == Val("nan", "float", 0, 1, <<>>)
IntV(n) == Val("num", "int", n, 1, <<>>)
BoolV(b) == Val("num", "bool", IF b THEN 1 ELSE 0, 1, <<>>)
FloatV(n, d) == Val("num", "float", n, d, <<>>)
Text(s) == Val("str", "str", 0, 1, s)
Raised(e) == Val("raise", e, 0, 1, <<>>)

Digits == <<"0", "1", "2", "3", "4", "5", "6", "7", "8", "9">>
IsDigit(c) == \E d \in 1..10 : Digits[d] = c
DigitVal(c) == (CHOOSE d \in 1..10 : Digits[d] = c) - 1
IsSpace(c) == c = " "

\* str(n) for a natural number n
RECURSIVE str(_)
str(n) == IF n < 10 THEN <<Digits[n + 1]>>
          ELSE str(n \div 10) \o <<Digits[(n % 10) + 1]>>

\* pd.isna on a scalar
isna(x) == x.k \in {"None", "nan"}

\* isinstance(x, (int, float)): bool is a subclass of int, nan is a float
isinstance_int_float(x) == x.ty \in {"int", "bool", "float"}

\* "-" in s
contains(s, c) == \E i \in 1..Len(s) : s[i] = c

\* s.split(sep)
RECURSIVE split(_, _)
split(s, sep) ==
    IF ~contains(s, sep) THEN <<s>>
    ELSE LET i == CHOOSE i \in 1..Len(s) :
                      s[i] = sep /\ \A j \in 1..(i - 1) : s[j] # sep
         IN <<SubSeq(s, 1, i - 1)>> \o split(SubSeq(s, i + 1, Len(s)), sep)

\* s.strip(), as int() applies it
RECURSIVE lstrip(_)
lstrip(s) == IF s # <<>> /\ IsSpace(s[1]) THEN lstrip(Tail(s)) ELSE s
RECURSIVE rstrip(_)
rstrip(s) == IF s # <<>> /\ IsSpace(s[Len(s)])
             THEN rstrip(SubSeq(s, 1, Len(s) - 1)) ELSE s
strip(s) == rstrip(lstrip(s))

RECURSIVE decimal(_)
decimal(s) == IF s = <<>> THEN 0
              ELSE 10 * decimal(SubSeq(s, 1, Len(s) - 1)) + DigitVal(s[Len(s)])

\* int(s) for a text s: blanks around, an optional sign, then digits;
\* anything else raises ValueError
int(s) ==
    LET t == strip(s)
        signed == t # <<>> /\ t[1] \in {"+", "-"}
        body == IF signed THEN Tail(t) ELSE t
    IN IF body = <<>> \/ \E i \in 1..Len(body) : ~IsDigit(body[i])
       THEN Raised("ValueError")
       ELSE IntV(IF signed /\ t[1] = "-" THEN 0 - decimal(body) ELSE decimal(body))

\* lines 40-41, the body of the try block
try_body(s) ==
    LET parts == split(s, "-")
    IN IF Len(parts) # 2 THEN Raised("ValueError")
       ELSE LET feet == int(parts[1])
                inches == int(parts[2])
            IN IF feet.k = "raise" THEN feet
               ELSE IF inches.k = "raise" THEN inches
               ELSE IntV(feet.num * 12 + inches.num)

\* mutant: the except clause is gone, the exception reaches the caller
height_to_inches_noexcept(x) ==
    IF isna(x) THEN None
    ELSE IF isinstance_int_float(x) THEN x
    ELSE IF ~contains(x.s, "-") THEN None
    ELSE try_body(x.s)

\* mutant: inches are added to feet without the factor 12
height_to_inches_nofactor(x) ==
    IF isna(x) THEN None
    ELSE IF isinstance_int_float(x) THEN x
    ELSE IF ~contains(x.s, "-") THEN None
    ELSE LET r == try_body(x.s)
         IN IF r.k = "raise" THEN None
            ELSE IntV(int(split(x.s, "-")[1]).num + int(split(x.s, "-")[2]).num)

\* mutant: only int passes the isinstance test
height_to_inches_intonly(x) ==
    IF isna(x) THEN None
    ELSE IF x.ty \in {"int", "bool"} THEN x
    ELSE IF x.k = "num" THEN None
    ELSE IF ~contains(x.s, "-") THEN None
    ELSE LET r == try_body(x.s) IN IF r.k = "raise" THEN None ELSE r

\* mutant: the result is left in feet
height_to_inches_feet(x) ==
    IF isna(x) THEN None
    ELSE IF isinstance_int_float(x) THEN x
    ELSE IF ~contains(x.s, "-") THEN None
    ELSE LET r == try_body(x.s)
         IN IF r.k = "raise" THEN None ELSE FloatV(r.num, 12)

height_to_inches(x) ==
    IF isna(x) THEN None
    ELSE IF isinstance_int_float(x) THEN x
    ELSE IF ~contains(x.s, "-") THEN None
    ELSE LET r == try_body(x.s) IN IF r.k = "raise" THEN None ELSE r

(***************************************************************************)
(* The caller of height_to_inches: any raw value, then the result fed back *)
(* when it is a number.                                                    *)
(***************************************************************************)
Alphabet == {"0", "1", "6", "-", "a", " ", "+"}

RECURSIVE Texts(_)
Texts(n) == IF n = 0 THEN {<<>>}
            ELSE Texts(n - 1) \cup
                 {Append(s, c) : s \in {t \in Texts(n - 1) : Len(t) = n - 1}, c \in Alphabet}

\* the texts "F-I" written as Python's str() writes the two integers
FeetInches(F, I) == str(F) \o <<"-">> \o str(I)
WellFormed == {FeetInches(F, I) : F \in 0..MaxFeet, I \in 0..11}

Numbers == {IntV(0), IntV(78), IntV(0 - 5), FloatV(157, 2), FloatV(0 - 1, 2),
            BoolV(TRUE), BoolV(FALSE), NaN}

RawHeights == {None} \cup Numbers \cup {Text(s) : s \in Texts(MaxLen) \cup WellFormed}

NoTable == <<>>
NoAgg == <<>>
NoCounts == [l \in {} |-> 0]

RunIdle ==
    /\ csv = NoTable
    /\ columns = {}
    /\ dirExists = FALSE
    /\ files = {}
    /\ pc = "off"
    /\ df_players = NoTable
    /\ position_counts = NoCounts
    /\ team_counts = NoCounts
    /\ height_by_pos = NoAgg
    /\ weight_by_pos = NoAgg
    /\ error = ""

InitNorm ==
    /\ h \in RawHeights
    /\ ret = None
    /\ npc = "call"
    /\ RunIdle

\* height_to_inches(h)
Normalize ==
    /\ npc = "call"
    /\ ret' = height_to_inches(h)
    /\ npc' = "returned"
    /\ UNCHANGED <<h, runVars>>

\* height_to_inches applied again to a number it returned
Reapply ==
    /\ npc = "returned"
    /\ ret.k = "num"
    /\ h' = ret
    /\ ret' = height_to_inches(ret)
    /\ npc' = "reapplied"
    /\ UNCHANGED runVars

NextNorm == Normalize \/ Reapply

SpecNorm == InitNorm /\ [][NextNorm]_vars

(***************************************************************************)
(* create_player_visualizations: the table, the aggregates, the six saves. *)
(***************************************************************************)
Columns == {"height", "weight", "position", "team.full_name"}

\* read_csv gives a column one type: texts and NaN, or ints, or floats and NaN
TextHeights == {NaN, Text(<<"6", "-", "6">>), Text(<<"7", "-", "0">>), Text(<<"a", "-", "6">>)}
IntHeights == {IntV(0 - 5), IntV(78)}
FloatHeights == {NaN, FloatV(157, 2)}
WeightCells == {Text(<<"a">>), Text(<<"2", "0", "0">>), Text(<<"2", "5", "0">>)}
PositionCells == {NaN, Text(<<"C">>), Text(<<"G">>)}
TeamCells == {Text(<<"A">>)}

\* the order groupby gives its group labels (sorted labels)
GroupLabels == <<Text(<<"C">>), Text(<<"G">>)>>

\* the cells of column c: a column the file lacks has no cells (NaN stands for none)
Cells(c, cols, present) == IF c \in cols THEN present ELSE {NaN}

CsvRows(heights, cols) ==
    [height : Cells("height", cols, heights),
     weight : Cells("weight", cols, WeightCells),
     position : Cells("position", cols, PositionCells),
     team : Cells("team.full_name", cols, TeamCells)]

\* the three types read_csv can give the height column
HeightTypes == {TextHeights, IntHeights, FloatHeights}

\* pd.read_csv: the tables of n rows it can return for a file with the
\* columns cols whose heights are of one column type
read_csv(cols, heights, n) == [1..n -> CsvRows(heights, cols)]

\* pd.to_numeric(cell, errors="coerce") on one cell: a number stays, a text
\* of digits is parsed, any other text and a missing cell become NaN
to_numeric(x) ==
    IF x.k = "num" THEN x
    ELSE IF x.k = "str" /\ x.s # <<>> /\ \A i \in 1..Len(x.s) : IsDigit(x.s[i])
    THEN IntV(decimal(x.s))
    ELSE NaN

\* lines 62-63 on one row
normalize_row(r) ==
    [height |-> r.height, weight |-> to_numeric(r.weight), position |-> r.position,
     team |-> r.team, height_in |-> height_to_inches(r.height)]

\* twice the value of a number whose denominator is 1 or 2
Halves(x) == x.num * (2 \div x.den)

RECURSIVE SumSeq(_)
SumSeq(s) == IF s = <<>> THEN 0 ELSE Head(s) + SumSeq(Tail(s))

\* mutant: nothing is dropped
dropna_none(df, col) == df

\* df.dropna(subset=[col]): a new table, the rows whose col is not missing
dropna(df, col) == SelectSeq(df, LAMBDA r : ~isna(r[col]))

\* Series.value_counts(): the count of each label present, missing labels left out
value_counts(df, col) ==
    LET labels == {df[i][col] : i \in {j \in 1..Len(df) : ~isna(df[j][col])}}
    IN [l \in labels |-> Cardinality({i \in 1..Len(df) : df[i][col] = l})]

\* one group of groupby('position')[col].agg(['mean', 'std']): mean is
\* sum2/(2*n), std is the sample deviation (ddof = 1), missing for one member;
\* var_num/var_den is its square
agg_group(df, col, label) ==
    LET rows == SelectSeq(df, LAMBDA r : r.position = label)
        xs == [i \in 1..Len(rows) |-> Halves(rows[i][col])]
        n == Len(rows)
        s1 == SumSeq(xs)
        s2 == SumSeq([i \in 1..n |-> xs[i] * xs[i]])
    IN [position |-> label, n |-> n, sum2 |-> s1,
        std_isna |-> n < 2,
        var_num |-> IF n < 2 THEN 0 ELSE n * s2 - s1 * s1,
        var_den |-> IF n < 2 THEN 1 ELSE 4 * n * (n - 1)]

\* groupby('position')[col].agg(['mean', 'std']): one record for each label
\* that has a row, in label order; rows with a missing position are in no group
groupby_agg(df, col) ==
    LET present == SelectSeq(GroupLabels,
                             LAMBDA l : \E i \in 1..Len(df) : df[i].position = l)
    IN [g \in 1..Len(present) |-> agg_group(df, col, present[g])]

\* mean of a >= mean of b
MeanGE(a, b) == a.sum2 * b.n >= b.sum2 * a.n

Perms(n) == {f \in [1..n -> 1..n] : \A i, j \in 1..n : i # j => f[i] # f[j]}

\* mutant: ascending order
sort_values_asc(a) ==
    {[i \in 1..Len(a) |-> a[f[i]]] : f \in
        {g \in Perms(Len(a)) : \A i \in 1..(Len(a) - 1) : MeanGE(a[g[i + 1]], a[g[i]])}}

\* sort_values('mean', ascending=False) with the default kind 'quicksort',
\* which is not stable: every arrangement with non-increasing means
sort_values_desc(a) ==
    {[i \in 1..Len(a) |-> a[f[i]]] : f \in
        {g \in Perms(Len(a)) : \A i \in 1..(Len(a) - 1) : MeanGE(a[g[i]], a[g[i + 1]])}}

\* mutant: the fill is left out
fillna_skip(a) == a

\* a['std'] = a['std'].fillna(0)
fillna0(a) ==
    [i \in 1..Len(a) |->
        IF a[i].std_isna
        THEN [a[i] EXCEPT !.std_isna = FALSE, !.var_num = 0, !.var_den = 1]
        ELSE a[i]]

InitRun ==
    /\ columns \in {Columns} \cup {Columns \ {c} : c \in Columns}
    /\ \E n \in 0..MaxRows : \E heights \in HeightTypes :
           csv \in read_csv(columns, heights, n)
    /\ dirExists \in BOOLEAN
    /\ files = {}
    /\ pc = "start"
    /\ df_players = NoTable
    /\ position_counts = NoCounts
    /\ team_counts = NoCounts
    /\ height_by_pos = NoAgg
    /\ weight_by_pos = NoAgg
    /\ error = ""
    /\ h = None
    /\ ret = None
    /\ npc = "off"

Fail(e) ==
    /\ pc' = "failed"
    /\ error' = e

\* plt.savefig(...) then the next section; without the directory the write
\* raises FileNotFoundError
Savefig(name, next) ==
    IF dirExists
    THEN /\ files' = files \cup {name}
         /\ pc' = next
         /\ error' = error
    ELSE /\ files' = files
         /\ Fail("FileNotFoundError")

\* os.makedirs('visualizations', exist_ok=True), called by the program that
\* uses this module, before or after a run
ensure_viz_directory ==
    /\ pc \in {"start", "done", "failed"}
    /\ dirExists' = TRUE
    /\ UNCHANGED <<csv, columns, files, pc, df_players, position_counts, team_counts,
                   height_by_pos, weight_by_pos, error, normVars>>

\* lines 59-63
Load ==
    /\ pc = "start"
    /\ IF "height" \notin columns \/ "weight" \notin columns
       THEN /\ Fail("KeyError")
            /\ df_players' = df_players
       ELSE /\ df_players' = [i \in 1..Len(csv) |-> normalize_row(csv[i])]
            /\ pc' = "chart1"
            /\ error' = error
    /\ UNCHANGED <<csv, columns, dirExists, files, position_counts, team_counts,
                   height_by_pos, weight_by_pos, normVars>>

\* lines 68-100
Chart1 ==
    /\ pc = "chart1"
    /\ Savefig("1_height_distribution.png", "chart2")
    /\ UNCHANGED <<csv, columns, dirExists, df_players, position_counts, team_counts,
                   height_by_pos, weight_by_pos, normVars>>

\* lines 111-142
Chart2 ==
    /\ pc = "chart2"
    /\ Savefig("2_weight_distribution.png", "chart3")
    /\ UNCHANGED <<csv, columns, dirExists, df_players, position_counts, team_counts,
                   height_by_pos, weight_by_pos, normVars>>

\* lines 152-182
Chart3 ==
    /\ pc = "chart3"
    /\ IF "position" \notin columns
       THEN /\ Fail("KeyError")
            /\ UNCHANGED <<files, position_counts>>
       ELSE /\ position_counts' = value_counts(df_players, "position")
            /\ Savefig("3_position_distribution.png", "chart4")
    /\ UNCHANGED <<csv, columns, dirExists, df_players, team_counts,
                   height_by_pos, weight_by_pos, normVars>>

\* lines 187-212
Chart4 ==
    /\ pc = "chart4"
    /\ IF "team.full_name" \notin columns
       THEN /\ Fail("KeyError")
            /\ UNCHANGED <<files, team_counts>>
       ELSE /\ team_counts' = value_counts(df_players, "team")
            /\ Savefig("4_players_per_team.png", "chart5")
    /\ UNCHANGED <<csv, columns, dirExists, df_players, position_counts,
                   height_by_pos, weight_by_pos, normVars>>

\* mutant: the rows are dropped from the shared table (inplace=True)
Chart5_inplace ==
    /\ pc = "chart5"
    /\ df_players' = dropna(df_players, "height_in")
    /\ \E sorted \in sort_values_desc(groupby_agg(df_players', "height_in")) :
           height_by_pos' = fillna0(sorted)
    /\ Savefig("5_height_by_position.png", "chart6")
    /\ UNCHANGED <<csv, columns, dirExists, position_counts, team_counts,
                   weight_by_pos, normVars>>

\* lines 217-256
Chart5 ==
    /\ pc = "chart5"
    /\ \E sorted \in sort_values_desc(groupby_agg(dropna(df_players, "height_in"), "height_in")) :
           height_by_pos' = fillna0(sorted)
    /\ Savefig("5_height_by_position.png", "chart6")
    /\ UNCHANGED <<csv, columns, dirExists, df_players, position_counts, team_counts,
                   weight_by_pos, normVars>>

\* lines 261-304
Chart6 ==
    /\ pc = "chart6"
    /\ \E sorted \in sort_values_desc(groupby_agg(dropna(df_players, "weight"), "weight")) :
           weight_by_pos' = fillna0(sorted)
    /\ Savefig("6_weight_by_position.png", "done")
    /\ UNCHANGED <<csv, columns, dirExists, df_players, position_counts, team_counts,
                   height_by_pos, normVars>>

Next ==
    \/ ensure_viz_directory
    \/ Load
    \/ Chart1
    \/ Chart2
    \/ Chart3
    \/ Chart4
    \/ Chart5
    \/ Chart6

Spec == InitRun /\ [][Next]_vars

(***************************************************************************)
(* The claims about height_to_inches, checked under SpecNorm.              *)
(***************************************************************************)
CountChar(s, c) == Cardinality({i \in 1..Len(s) : s[i] = c})

\* blanks, an optional "+" right before a non-empty run of digits, blanks
LooksInteger(p) ==
    \E i \in 1..Len(p) : \E j \in i..Len(p) :
        /\ \A k \in i..j : IsDigit(p[k])
        /\ \A k \in (j + 1)..Len(p) : p[k] = " "
        /\ \A k \in 1..(i - 1) : p[k] = " " \/ (k = i - 1 /\ p[k] = "+")

Malformed(x) ==
    /\ x.k = "str"
    /\ \/ CountChar(x.s, "-") # 1
       \/ \E i \in 1..Len(x.s) :
              /\ x.s[i] = "-"
              /\ \/ ~LooksInteger(SubSeq(x.s, 1, i - 1))
                 \/ ~LooksInteger(SubSeq(x.s, i + 1, Len(x.s)))

\* C1: height_to_inches returns a number or None for every raw input, never
\* raises, and returns None (no default number) for every absent or
\* malformed input.
C1_TotalNoDefault ==
    npc = "returned" =>
        /\ ret.k \in {"None", "num"}
        /\ (isna(h) \/ Malformed(h)) => ret = None

C1_Witness ==
    /\ npc = "returned"
    /\ h = Text(<<"a", "-", "a">>)
    /\ ret = None

\* C2: a well-formed text "F-I" with F >= 0 and 0 <= I < 12 gives F*12 + I.
C2_WellFormedInches ==
    \A F \in 0..MaxFeet : \A I \in 0..11 :
        (npc = "returned" /\ h = Text(FeetInches(F, I))) => ret = IntV(F * 12 + I)

C2_Witness ==
    /\ npc = "returned"
    /\ h = Text(<<"6", "-", "6">>)
    /\ ret = IntV(78)

IsNumberType(x) == x.ty \in {"int", "float", "bool"}

\* C3 as stated: every int, float (NaN too) and bool input comes back
\* unchanged.
C3_AllNumericUnchanged ==
    (npc = "returned" /\ IsNumberType(h)) => ret = h

\* C3 amended: every int, float and bool input other than NaN comes back
\* unchanged (NaN gives None), and applying height_to_inches again to a
\* number it returned gives that number.
C3_NumericUnchanged ==
    /\ (npc = "returned" /\ IsNumberType(h) /\ h # NaN) => ret = h
    /\ (npc = "returned" /\ h = NaN) => ret = None
    /\ npc = "reapplied" => ret = h

C3_Witness ==
    /\ npc = "reapplied"
    /\ h = FloatV(157, 2)
    /\ ret = FloatV(157, 2)

(***************************************************************************)
(* The claims about create_player_visualizations, checked under Spec.      *)
(***************************************************************************)
Loaded == pc \in {"chart1", "chart2", "chart3", "chart4", "chart5", "chart6", "done"}
HeightAggDone == pc \in {"chart6", "done"}
WeightAggDone == pc = "done"

NonNegInteger(x) == x.k = "num" /\ x.den = 1 /\ x.num >= 0

SumOf(a) == SumSeq([g \in 1..Len(a) |-> a[g].n])

RowsWhere(P(_)) == {i \in 1..Len(df_players) : P(df_players[i])}

\* C4 as stated: whatever the raw height (text, any number, missing), the
\* stored height_in is a non-negative integer or absent.
C4_HeightInNonNegOrAbsent ==
    Loaded => \A i \in 1..Len(df_players) :
                  isna(df_players[i].height_in) \/ NonNegInteger(df_players[i].height_in)

\* C4 amended: for a raw height that is a text or missing, the stored
\* height_in is a non-negative integer or absent; a raw height that is a
\* number is stored as that same number, negative or fractional included.
C4_TextHeightNonNegOrAbsent ==
    Loaded => \A i \in 1..Len(df_players) :
                  /\ csv[i].height.k \in {"str", "nan"} =>
                         \/ df_players[i].height_in = None
                         \/ NonNegInteger(df_players[i].height_in)
                  /\ csv[i].height.k = "num" => df_players[i].height_in = csv[i].height

C4_Witness ==
    /\ Loaded
    /\ \E i \in 1..Len(df_players) :
           /\ csv[i].height = Text(<<"6", "-", "6">>)
           /\ df_players[i].height_in = IntV(78)
    /\ \E i \in 1..Len(df_players) :
           /\ csv[i].height = Text(<<"a", "-", "6">>)
           /\ df_players[i].height_in = None

\* C5 as stated: the group sizes of the per-position height aggregate add
\* up to the number of rows with a height_in, for every table.
C5_GroupSizesSumToHeights ==
    HeightAggDone =>
        SumOf(height_by_pos) = Cardinality(RowsWhere(LAMBDA r : ~isna(r.height_in)))

\* C5 amended: the group sizes add up to the number of rows that have both
\* a height_in and a position; a row with a height but no position is in
\* no group.
C5_GroupSizesSumToPlacedHeights ==
    HeightAggDone =>
        SumOf(height_by_pos) =
            Cardinality(RowsWhere(LAMBDA r : ~isna(r.height_in) /\ ~isna(r.position)))

C5_Witness ==
    /\ HeightAggDone
    /\ Len(height_by_pos) >= 1
    /\ RowsWhere(LAMBDA r : ~isna(r.height_in) /\ isna(r.position)) # {}

StdFilled(a) ==
    \A g \in 1..Len(a) :
        /\ ~a[g].std_isna
        /\ a[g].n = 1 => a[g].var_num = 0

\* C6: in the final per-position height and weight aggregates no std is
\* missing and a group with one member has std 0.
C6_SingleMemberStdZero ==
    /\ HeightAggDone => StdFilled(height_by_pos)
    /\ WeightAggDone => StdFilled(weight_by_pos)

C6_Witness ==
    /\ WeightAggDone
    /\ \E g \in 1..Len(height_by_pos) : height_by_pos[g].n = 1
    /\ \E g \in 1..Len(weight_by_pos) : weight_by_pos[g].n = 1

Descending(a) == \A g \in 1..(Len(a) - 1) : MeanGE(a[g], a[g + 1])

LabelIndex(l) == CHOOSE k \in 1..Len(GroupLabels) : GroupLabels[k] = l

TiesInLabelOrder(a) ==
    \A g \in 1..(Len(a) - 1) :
        (MeanGE(a[g], a[g + 1]) /\ MeanGE(a[g + 1], a[g])) =>
            LabelIndex(a[g].position) < LabelIndex(a[g + 1].position)

\* C7 as stated: the per-position mean-height aggregate has non-increasing
\* means and groups of equal mean keep the order the grouping gave them.
C7_DescendingStable ==
    HeightAggDone => (Descending(height_by_pos) /\ TiesInLabelOrder(height_by_pos))

\* C7 amended: the per-position mean-height aggregate has non-increasing
\* means; the order of groups of equal mean is not fixed.
C7_Descending ==
    HeightAggDone => Descending(height_by_pos)

C7_Witness ==
    /\ HeightAggDone
    /\ Len(height_by_pos) = 2
    /\ height_by_pos[1].position = GroupLabels[2]
    /\ ~MeanGE(height_by_pos[2], height_by_pos[1])

AllImages == {"1_height_distribution.png", "2_weight_distribution.png",
              "3_position_distribution.png", "4_players_per_team.png",
              "5_height_by_position.png", "6_weight_by_position.png"}

\* C8: a run ends with all six images saved, or fails with no image saved.
C8_Atomic ==
    /\ pc = "done" => files = AllImages
    /\ pc = "failed" => files = {}

\* C9: when the run comes to its first image write the directory
\* 'visualizations' has been created.
C9_DirectoryBeforeFirstWrite ==
    pc = "chart1" => dirExists

Normalized == [i \in 1..Len(csv) |-> normalize_row(csv[i])]

CsvRowsWhere(P(_)) == {i \in 1..Len(csv) : P(csv[i])}

GroupSize(a, l) ==
    IF \E g \in 1..Len(a) : a[g].position = l
    THEN a[CHOOSE g \in 1..Len(a) : a[g].position = l].n
    ELSE 0

CountOf(c, l) == IF l \in DOMAIN c THEN c[l] ELSE 0

\* C10: the charts leave the shared table as the normalisation made it; a
\* row without height_in (or weight) is in no group of the height (or
\* weight) aggregate, yet it is counted by the position and team counts
\* and is in the aggregate of the other column when that value is there.
\* Each result is thereby a function of the file's rows alone, whatever
\* was computed before it.
C10_DropIsLocal ==
    /\ Loaded => df_players = Normalized
    /\ pc \in {"chart4", "chart5", "chart6", "done"} =>
           \A l \in PositionCells \ {NaN} :
               CountOf(position_counts, l) =
                   Cardinality(CsvRowsWhere(LAMBDA r : r.position = l))
    /\ pc \in {"chart5", "chart6", "done"} =>
           \A l \in TeamCells \ {NaN} :
               CountOf(team_counts, l) = Cardinality(CsvRowsWhere(LAMBDA r : r.team = l))
    /\ HeightAggDone =>
           \A l \in PositionCells \ {NaN} :
               GroupSize(height_by_pos, l) =
                   Cardinality(CsvRowsWhere(
                       LAMBDA r : r.position = l /\ ~isna(height_to_inches(r.height))))
    /\ WeightAggDone =>
           \A l \in PositionCells \ {NaN} :
               GroupSize(weight_by_pos, l) =
                   Cardinality(CsvRowsWhere(
                       LAMBDA r : r.position = l /\ ~isna(to_numeric(r.weight))))

C10_Witness ==
    /\ pc = "done"
    /\ \E i \in 1..Len(df_players) :
           /\ isna(df_players[i].height_in)
           /\ ~isna(df_players[i].weight)
           /\ ~isna(df_players[i].position)
           /\ GroupSize(height_by_pos, df_players[i].position) = 0
           /\ GroupSize(weight_by_pos, df_players[i].position) >= 1
           /\ CountOf(position_counts, df_players[i].position) >= 1
           /\ CountOf(team_counts, df_players[i].team) >= 1
    /\ \E i \in 1..Len(df_players) :
           /\ isna(df_players[i].weight)
           /\ ~isna(df_players[i].height_in)
           /\ ~isna(df_players[i].position)
           /\ GroupSize(weight_by_pos, df_players[i].position) = 0
           /\ GroupSize(height_by_pos, df_players[i].position) >= 1

====
